---- MODULE Spec2Model ----
(***************************************************************************)
(* Verification model of the WASM module acquisition pipeline of           *)
(* sigma-wasm: the run-time loader of the hello-wasm route                 *)
(* (src/src/routes/hello-wasm.ts) and the build-time import rewriting and  *)
(* asset copying plugins (src/vite.config.ts).                             *)
(***************************************************************************)
EXTENDS Integers, Sequences, FiniteSets, TLC

VARIABLES
    \* ---- run time: hello-wasm.ts ----
    pkgModule,          \* the namespace object the dynamic import resolves to
    initExports,        \* the value the module's default() resolves to
    wasmModuleExports,  \* module-level cache, hello-wasm.ts:26
    wasmHelloModule,    \* WASM_HELLO.wasmModule, hello-wasm.ts:239
    pc,                 \* position of each execution of init()
    inits,              \* number of init() calls made so far
    loadResult,         \* value loadWasmModule resolved with, per task
    lastError,          \* error init() rethrew to its caller, per task
    errorEl,            \* whether the page has the element with id 'error'
    errorText,          \* textContent of that element, NULL while it is untouched
    listeners,          \* tasks whose init() installed the UI listeners
    request,            \* bookkeeping of the current load request, per task
    nextHandle,         \* number of handle objects validateHelloModule built
    validated,          \* handles validateHelloModule has returned
    moduleCalls,        \* calls into a handle: <<"init" or "ui", handle>>
    \* ---- validateHelloModule applied to arbitrary arguments ----
    vExports,           \* the init result passed to the validator
    vCache,             \* the value of wasmModuleExports it reads
    vResult,            \* what the call produced, NULL before the call
    \* ---- build time: the chunk pipeline of vite.config.ts ----
    chunkFrags,         \* the pieces the chunk was generated from
    chunkCode,          \* the chunk's code
    renderedCode,       \* the code as the renderChunk hooks left it
    phase,              \* the hook that ran last
    \* ---- build time: the copy of pkg/ to dist/pkg/ ----
    pkgTree,            \* the files of pkg/, by path
    truncates,          \* the paths of dist/pkg at which a file written is read back shorter
    distFiles,          \* the files of dist/pkg/, by path
    distDirs,           \* the directories of dist/pkg/ ({} when it does not exist)
    copyPhase,          \* the hook of copyWasmModules that ran last
    copyError,          \* the error that failed the build, NULL when none
    builds,             \* number of builds started
    \* ---- throttle of src/unnamed/part_000 ----
    now,                \* Date.now()
    wait,               \* the wait argument of throttle
    timeoutId,          \* the pending timer, NULL for undefined
    lastArgs,           \* arguments kept for the next invocation, NULL for undefined
    lastInvoke,         \* time of the last invocation of fn
    fnLog,              \* the invocations of fn so far
    lastCall,           \* arguments of the most recent call of the wrapper
    calls,              \* number of calls of the wrapper
    destroyed,          \* the slider's destroy() has removed its input listener
    ariaValue           \* the slider's aria-valuenow, NULL without a slider

rtVars == <<pkgModule, initExports, wasmModuleExports, wasmHelloModule, pc,
            inits, loadResult, lastError, errorEl, errorText, listeners, request,
            nextHandle, validated, moduleCalls>>

valVars == <<vExports, vCache, vResult>>

buildVars == <<chunkFrags, chunkCode, renderedCode, phase>>

copyVars == <<pkgTree, truncates, distFiles, distDirs, copyPhase, copyError, builds>>

thrVars == <<now, wait, timeoutId, lastArgs, lastInvoke, fnLog, lastCall, calls,
            destroyed, ariaValue>>

vars == <<rtVars, valVars, buildVars, copyVars, thrVars>>

----------------------------------------------------------------------------
(* Bounds *)

NumTasks == 2       \* concurrent callers of init()
MaxInits == 3       \* init() calls in the lifetime of the page
MaxMissing == 2     \* exports of the imported module that are not functions
MaxFrags == 3       \* pieces a chunk is made of
MaxUrls == 2        \* pieces the body of a glue file is made of
MaxBuilds == 2      \* builds run on one checkout
MaxWait == 3        \* largest wait given to throttle
MaxTime == 8        \* last reading of the clock
MaxCalls == 3       \* calls of the throttled wrapper
NumArgs == 2        \* distinct argument values given to the wrapper

\* content.length < 1000, vite.config.ts:90
SmallFileLimit == 1000

Tasks == 1..NumTasks

----------------------------------------------------------------------------
(* Values *)

NULL == [null |-> TRUE]

\* the eleven functions of the handle, in the order the code checks them
FunctionNames ==
    <<"wasm_init", "get_counter", "increment_counter", "get_message",
      "set_message", "get_fave_car", "set_fave_car", "get_fave_team",
      "set_fave_team", "get_decimal", "set_decimal">>

\* the keys getInitWasm requires of the imported module, in checking order
ExportNames == <<"default">> \o FunctionNames

Range(s) == {s[i] : i \in 1..Len(s)}

\* typeof of a property: a function, not present, or present with another type
Kinds == {"function", "absent", "other"}

\* what instanceof WebAssembly.Memory sees in the init result's `memory`
MemKinds == {"Memory", "absent", "other"}

BadNames(m) == {n \in DOMAIN m : m[n] # "function"}

ModuleShapes ==
    {m \in [Range(ExportNames) -> Kinds] : Cardinality(BadNames(m)) <= MaxMissing}

InitResults ==
    [isObject : {TRUE}, memory : MemKinds] \cup {[isObject |-> FALSE, memory |-> "absent"]}

----------------------------------------------------------------------------
(* hello-wasm.ts: getInitWasm's export checks *)

\* export checks that look at `default` only
FirstMissingDefaultOnly(m) ==
    IF m["default"] # "function" THEN <<"default">> ELSE <<>>

\* lines 105-140: the checks run in order and the first failing one throws
FirstMissing(m) ==
    LET bad == {i \in 1..Len(ExportNames) : m[ExportNames[i]] # "function"}
    IN  IF bad = {} THEN <<>>
        ELSE <<ExportNames[CHOOSE i \in bad : \A j \in bad : i <= j]>>

\* lines 196-221: the cache object built from the checked functions
ExtractExports(m) == [n \in Range(ExportNames) |-> m[n]]

----------------------------------------------------------------------------
(* loader.ts (not in src/): validateWasmModule *)

validateWasmModule(exports) == exports.isObject

(* hello-wasm.ts: validateHelloModule *)

MemoryLabel == "memory (WebAssembly.Memory)"
CacheNullLabel == "module exports (wasmModuleExports is null)"

\* a validator that stops at the first violation it finds
MissingExportsFirstOnly(exports, cache) ==
    IF exports.memory # "Memory" THEN <<MemoryLabel>>
    ELSE IF cache = NULL THEN <<CacheNullLabel>>
    ELSE LET bad == SelectSeq(FunctionNames, LAMBDA n : cache[n] # "function")
         IN  IF bad = <<>> THEN <<>> ELSE <<Head(bad)>>

\* lines 271-317: every violation is pushed before anything is thrown
MissingExports(exports, cache) ==
    (IF exports.memory # "Memory" THEN <<MemoryLabel>> ELSE <<>>)
    \o (IF cache = NULL THEN <<CacheNullLabel>>
        ELSE SelectSeq(FunctionNames, LAMBDA n : cache[n] # "function"))

\* lines 256-348: "null", "throw" with the list, or the handle's content
validateHelloModule(exports, cache) ==
    IF ~validateWasmModule(exports) THEN [outcome |-> "null", missing |-> <<>>]
    ELSE IF ~exports.isObject THEN [outcome |-> "null", missing |-> <<>>]
    ELSE LET missing == MissingExports(exports, cache)
         IN  IF Len(missing) > 0 THEN [outcome |-> "throw", missing |-> missing]
             ELSE IF exports.memory # "Memory" THEN [outcome |-> "null", missing |-> <<>>]
             ELSE IF cache = NULL THEN [outcome |-> "null", missing |-> <<>>]
             ELSE [outcome |-> "handle", missing |-> <<>>]

----------------------------------------------------------------------------
(* Errors, as init()'s caller sees them *)

Err(class, what, missing) == [class |-> class, what |-> what, missing |-> missing]

\* loader.ts (not in src/): loadWasmModule classifies what initFn or the
\* validator threw and rethrows it with its diagnostic.
LoadError(e) == Err("WasmLoadError", e.what, e.missing)
ValidationError(e) == Err("WasmInitError", e.what, e.missing)

NewRequest == [afterSuccess |-> validated # {}, imported |-> FALSE, validatorRan |-> FALSE]

\* init()'s catch block, lines 383-409: render, then rethrow
\* the text the catch block of init() writes, lines 386-406
Render(e) ==
    [prefix |-> CASE e.class = "WasmLoadError" -> "Failed to load WASM module: "
                  [] e.class = "WasmInitError" -> "WASM module initialization failed: "
                  [] OTHER -> "Error: ",
     message |-> e.what]

\* a throw outside the try block of init(), lines 432-459
Throw(t, e) ==
    /\ pc' = [pc EXCEPT ![t] = "failed"]
    /\ lastError' = [lastError EXCEPT ![t] = e]
    /\ UNCHANGED errorText

\* a catch block that renders the error and returns
RethrowSwallowed(t, e) ==
    /\ pc' = [pc EXCEPT ![t] = "ready"]
    /\ lastError' = [lastError EXCEPT ![t] = NULL]
    /\ errorText' = IF errorEl THEN Render(e) ELSE errorText

Rethrow(t, e) ==
    /\ pc' = [pc EXCEPT ![t] = "failed"]
    /\ lastError' = [lastError EXCEPT ![t] = e]
    /\ errorText' = IF errorEl THEN Render(e) ELSE errorText

----------------------------------------------------------------------------
(* Each specification drives one part of the system; the variables of the
   other parts rest at these values. *)

RtIdle ==
    /\ pkgModule = NULL
    /\ initExports = NULL
    /\ wasmModuleExports = NULL
    /\ wasmHelloModule = NULL
    /\ pc = [t \in Tasks |-> "idle"]
    /\ inits = 0
    /\ loadResult = [t \in Tasks |-> NULL]
    /\ lastError = [t \in Tasks |-> NULL]
    /\ errorEl = FALSE
    /\ errorText = NULL
    /\ listeners = {}
    /\ request = [t \in Tasks |-> [afterSuccess |-> FALSE, imported |-> FALSE, validatorRan |-> FALSE]]
    /\ nextHandle = 0
    /\ validated = {}
    /\ moduleCalls = {}

ValIdle ==
    /\ vExports = NULL
    /\ vCache = NULL
    /\ vResult = NULL

BuildIdle ==
    /\ chunkFrags = <<>>
    /\ chunkCode = <<>>
    /\ renderedCode = <<>>
    /\ phase = "none"

\* a directory tree without files
NoFiles == [p \in {} |-> NULL]

CopyIdle ==
    /\ pkgTree = NoFiles
    /\ truncates = {}
    /\ distFiles = NoFiles
    /\ distDirs = {}
    /\ copyPhase = "none"
    /\ copyError = NULL
    /\ builds = 0

ThrIdle ==
    /\ now = 0
    /\ wait = 0
    /\ timeoutId = NULL
    /\ lastArgs = NULL
    /\ lastInvoke = 0
    /\ fnLog = <<>>
    /\ lastCall = NULL
    /\ calls = 0
    /\ destroyed = FALSE
    /\ ariaValue = NULL

----------------------------------------------------------------------------
(* Run-time actions *)

RtInit ==
    /\ pkgModule \in ModuleShapes
    /\ initExports \in InitResults
    /\ wasmModuleExports = NULL
    /\ wasmHelloModule = NULL
    /\ pc = [t \in Tasks |-> "idle"]
    /\ inits = 0
    /\ loadResult = [t \in Tasks |-> NULL]
    /\ lastError = [t \in Tasks |-> NULL]
    /\ errorEl \in BOOLEAN
    /\ errorText = NULL
    /\ listeners = {}
    /\ request = [t \in Tasks |-> [afterSuccess |-> FALSE, imported |-> FALSE, validatorRan |-> FALSE]]
    /\ nextHandle = 0
    /\ validated = {}
    /\ moduleCalls = {}
    /\ ValIdle
    /\ BuildIdle
    /\ CopyIdle
    /\ ThrIdle

\* init() is called (lines 362-373) and runs, through loadWasmModule, into
\* getInitWasm up to its first await (lines 50-54) or, with the cache set,
\* up to the call of default() (lines 223-227).
InitCall(t) ==
    /\ pc[t] \in {"idle", "ready", "failed"}
    /\ inits < MaxInits
    /\ inits' = inits + 1
    /\ lastError' = [lastError EXCEPT ![t] = NULL]
    /\ loadResult' = [loadResult EXCEPT ![t] = NULL]
    /\ \/ /\ wasmModuleExports = NULL
          /\ pc' = [pc EXCEPT ![t] = "awaitImport"]
          /\ request' = [request EXCEPT ![t] = [NewRequest EXCEPT !.imported = TRUE]]
       \/ /\ wasmModuleExports # NULL
          /\ pc' = [pc EXCEPT ![t] = "awaitDefault"]
          /\ request' = [request EXCEPT ![t] = NewRequest]
    /\ UNCHANGED <<errorEl, errorText, pkgModule, initExports, wasmModuleExports,
                   wasmHelloModule, listeners, nextHandle, validated, moduleCalls>>

\* a getInitWasm that fills the cache before it checks the exports
ImportResolvePoisoning(t) ==
    /\ pc[t] = "awaitImport"
    /\ wasmModuleExports' = ExtractExports(pkgModule)
    /\ \/ /\ FirstMissing(pkgModule) # <<>>
          /\ Rethrow(t, LoadError(Err("Error", "missing export", FirstMissing(pkgModule))))
       \/ /\ FirstMissing(pkgModule) = <<>>
          /\ pc' = [pc EXCEPT ![t] = "awaitDefault"]
          /\ UNCHANGED <<lastError, errorText>>
    /\ UNCHANGED <<errorEl, pkgModule, initExports, wasmHelloModule, inits, loadResult,
                   listeners, request, nextHandle, validated, moduleCalls>>

\* the dynamic import resolves: lines 57-227
ImportResolve(t) ==
    /\ pc[t] = "awaitImport"
    /\ \/ /\ FirstMissing(pkgModule) # <<>>
          /\ Rethrow(t, LoadError(Err("Error", "missing export", FirstMissing(pkgModule))))
          /\ UNCHANGED wasmModuleExports
       \/ /\ FirstMissing(pkgModule) = <<>>
          /\ wasmModuleExports' = ExtractExports(pkgModule)
          /\ pc' = [pc EXCEPT ![t] = "awaitDefault"]
          /\ UNCHANGED <<lastError, errorText>>
    /\ UNCHANGED <<errorEl, pkgModule, initExports, wasmHelloModule, inits, loadResult,
                   listeners, request, nextHandle, validated, moduleCalls>>

\* the dynamic import rejects (network, missing file): line 54 throws
ImportReject(t) ==
    /\ pc[t] = "awaitImport"
    /\ Rethrow(t, LoadError(Err("Error", "import failed", <<>>)))
    /\ UNCHANGED <<errorEl, pkgModule, initExports, wasmModuleExports, wasmHelloModule,
                   inits, loadResult, listeners, request, nextHandle, validated,
                   moduleCalls>>

\* default() resolves; loadWasmModule hands the result to validateHelloModule
DefaultResolve(t) ==
    /\ pc[t] = "awaitDefault"
    /\ request' = [request EXCEPT ![t].validatorRan = TRUE]
    /\ LET v == validateHelloModule(initExports, wasmModuleExports)
       IN  \/ /\ v.outcome = "throw"
              /\ Rethrow(t, ValidationError(Err("Error", "missing export", v.missing)))
              /\ UNCHANGED <<loadResult, nextHandle, validated>>
           \/ /\ v.outcome = "null"
              /\ pc' = [pc EXCEPT ![t] = "awaitLoad"]
              /\ loadResult' = [loadResult EXCEPT ![t] = NULL]
              /\ UNCHANGED <<lastError, errorText, nextHandle, validated>>
           \/ /\ v.outcome = "handle"
              /\ pc' = [pc EXCEPT ![t] = "awaitLoad"]
              /\ loadResult' = [loadResult EXCEPT ![t] = [id |-> nextHandle + 1]]
              /\ nextHandle' = nextHandle + 1
              /\ validated' = validated \cup {[id |-> nextHandle + 1]}
              /\ UNCHANGED <<lastError, errorText>>
    /\ UNCHANGED <<errorEl, pkgModule, initExports, wasmModuleExports, wasmHelloModule,
                   inits, listeners, moduleCalls>>

\* default() rejects (the binary cannot be instantiated)
DefaultReject(t) ==
    /\ pc[t] = "awaitDefault"
    /\ Rethrow(t, LoadError(Err("Error", "instantiation failed", <<>>)))
    /\ UNCHANGED <<errorEl, pkgModule, initExports, wasmModuleExports, wasmHelloModule,
                   inits, loadResult, listeners, request, nextHandle, validated,
                   moduleCalls>>

\* an init() that lacks the null check of line 375 and goes on with an
\* object the validator never returned
InitResumeUnchecked(t) ==
    /\ pc[t] = "awaitLoad"
    /\ wasmHelloModule' = IF loadResult[t] = NULL THEN [id |-> 0] ELSE loadResult[t]
    /\ moduleCalls' = moduleCalls \cup {<<"init", wasmHelloModule'>>}
    /\ pc' = [pc EXCEPT ![t] = "ready"]
    /\ listeners' = listeners \cup {t}
    /\ UNCHANGED <<errorEl, pkgModule, initExports, wasmModuleExports, inits, loadResult,
                   lastError, errorText, request, nextHandle, validated>>

\* init() resumes after loadWasmModule: lines 375-382 and 411-577
InitResume(t) ==
    /\ pc[t] = "awaitLoad"
    /\ \/ /\ loadResult[t] = NULL
          /\ Rethrow(t, Err("WasmInitError", "failed validation", <<>>))
          /\ UNCHANGED <<wasmHelloModule, listeners, moduleCalls>>
       \/ /\ loadResult[t] # NULL
          /\ wasmHelloModule' = loadResult[t]
          /\ moduleCalls' = moduleCalls \cup {<<"init", loadResult[t]>>}
          /\ \/ \* wasm_init throws: line 382
                /\ Rethrow(t, Err("Error", "wasm_init threw", <<>>))
                /\ UNCHANGED listeners
             \/ \* a UI element is absent: lines 426-459
                /\ Throw(t, Err("Error", "ui elements", <<>>))
                /\ UNCHANGED listeners
             \/ \* lines 470-577: initial display, slider, listeners
                /\ pc' = [pc EXCEPT ![t] = "ready"]
                /\ listeners' = listeners \cup {t}
                /\ UNCHANGED <<lastError, errorText>>
    /\ UNCHANGED <<errorEl, pkgModule, initExports, wasmModuleExports, inits, loadResult,
                   request, nextHandle, validated>>

\* a UI event reaches a listener init() installed (lines 489-577): the
\* handler calls into whatever WASM_HELLO.wasmModule holds at that moment
UiEvent(t) ==
    /\ t \in listeners
    /\ wasmHelloModule # NULL
    /\ <<"ui", wasmHelloModule>> \notin moduleCalls
    /\ moduleCalls' = moduleCalls \cup {<<"ui", wasmHelloModule>>}
    /\ UNCHANGED <<errorEl, pkgModule, initExports, wasmModuleExports, wasmHelloModule, pc,
                   inits, loadResult, lastError, errorText, listeners, request, nextHandle,
                   validated>>

RtNext ==
    \E t \in Tasks :
        \/ InitCall(t)
        \/ ImportResolve(t)
        \/ ImportReject(t)
        \/ DefaultResolve(t)
        \/ DefaultReject(t)
        \/ InitResume(t)
        \/ UiEvent(t)

RtStep == RtNext /\ UNCHANGED <<valVars, buildVars, copyVars, thrVars>>

Spec == RtInit /\ [][RtStep]_vars

----------------------------------------------------------------------------
(* validateHelloModule as a function of its two inputs *)

\* caches with any subset of the functions mistyped, and the module shapes
ValCaches ==
    {NULL} \cup ModuleShapes
           \cup {c \in [Range(ExportNames) -> {"function", "other"}] : c["default"] = "function"}

ValInit ==
    /\ vExports \in InitResults
    /\ vCache \in ValCaches
    /\ vResult = NULL
    /\ RtIdle
    /\ BuildIdle
    /\ CopyIdle
    /\ ThrIdle

Validate ==
    /\ vResult = NULL
    /\ vResult' = validateHelloModule(vExports, vCache)
    /\ UNCHANGED <<vExports, vCache, rtVars, buildVars, copyVars, thrVars>>

ValNext == Validate

SpecValidate == ValInit /\ [][ValNext]_vars

----------------------------------------------------------------------------
(* Text: a chunk or a file is a sequence of characters *)

IsWs(c) == c \in {" ", "\n"}

IsQuote(c) == c \in {"\"", "'"}

\* the characters of l stand in s from position i on
Lit(s, i, l) ==
    /\ i >= 1
    /\ i + Len(l) - 1 <= Len(s)
    /\ \A k \in 1..Len(l) : s[i + k - 1] = l[k]

\* String.prototype.includes
Includes(s, l) == \E i \in 1..Len(s) : Lit(s, i, l)

RECURSIVE SkipWs(_, _)
\* \s* : the first position from i on that holds no white space
SkipWs(s, i) == IF i <= Len(s) /\ IsWs(s[i]) THEN SkipWs(s, i + 1) ELSE i

RECURSIVE SkipNonQuote(_, _)
\* [^'"]* : the first position from i on that holds a quote (or the end)
SkipNonQuote(s, i) == IF i <= Len(s) /\ ~IsQuote(s[i]) THEN SkipNonQuote(s, i + 1) ELSE i

RECURSIVE SkipNonParen(_, _)
\* [^)]* : the first position from i on that holds a closing parenthesis
SkipNonParen(s, i) == IF i <= Len(s) /\ s[i] # ")" THEN SkipNonParen(s, i + 1) ELSE i

RECURSIVE SkipDotDot(_, _)
\* (\.\.\/)* : the first position from i on where no ../ starts
SkipDotDot(s, i) == IF Lit(s, i, <<".", ".", "/">>) THEN SkipDotDot(s, i + 3) ELSE i

RECURSIVE Flatten(_)
Flatten(ss) == IF ss = <<>> THEN <<>> ELSE Head(ss) \o Flatten(Tail(ss))

NoMatch == [ok |-> FALSE, next |-> 0, quote |-> "", path |-> <<>>]

----------------------------------------------------------------------------
(* vite.config.ts: the regular expressions of the plugins *)

\* where PREFIX ends when it starts at position a, 0 when it does not match
PrefixEnd(prefix, s, a) ==
    CASE prefix = "rel1" ->
             IF SkipDotDot(s, a) > a /\ Lit(s, SkipDotDot(s, a), <<"p", "k", "g", "/">>)
             THEN SkipDotDot(s, a) + 4 ELSE 0
      [] prefix = "rel2" -> IF Lit(s, a, <<".", ".", "/", "p", "k", "g", "/">>) THEN a + 7 ELSE 0
      [] OTHER -> IF Lit(s, a, <<"/", "p", "k", "g", "/">>) THEN a + 5 ELSE 0

\* ([^'"]+)\1\) with the path standing at b..e-1 and the quote being q
MatchImportClose(s, q, b, e) ==
    IF e = b \/ e + 1 > Len(s) THEN NoMatch
    ELSE IF s[e] # q \/ s[e + 1] # ")" THEN NoMatch
    ELSE [ok |-> TRUE, next |-> e + 2, quote |-> q, path |-> SubSeq(s, b, e - 1)]

MatchImportPath(s, q, b) ==
    IF b = 0 THEN NoMatch ELSE MatchImportClose(s, q, b, SkipNonQuote(s, b))

MatchImportOpen(prefix, s, j) ==
    IF ~(Lit(s, j, <<"(">>) /\ j + 1 <= Len(s)) THEN NoMatch
    ELSE IF ~IsQuote(s[j + 1]) THEN NoMatch
    ELSE MatchImportPath(s, s[j + 1], PrefixEnd(prefix, s, j + 2))

\* /import\s*\((['"])PREFIX([^'"]+)\1\)/ at position i, PREFIX being
\*   "rel1": (\.\.\/)+pkg\/   line 211 (238)
\*   "rel2": \.\.\/pkg\/      line 219 (245)
\*   "abs":  \/pkg\/          inside the patterns of lines 133 and 141
MatchImport(prefix, s, i) ==
    IF ~Lit(s, i, <<"i", "m", "p", "o", "r", "t">>) THEN NoMatch
    ELSE MatchImportOpen(prefix, s, SkipWs(s, i + 6))

\* TAIL after the comma at position e - 1:
\*   "vp1": \s*\[\]\s*\)   line 133 (168)
\*   "vp2": \s*[^)]+\)     line 141 (177)
TailEnd(tail, s, e) ==
    IF tail = "vp1"
    THEN IF Lit(s, SkipWs(s, e), <<"[", "]">>) /\ Lit(s, SkipWs(s, SkipWs(s, e) + 2), <<")">>)
         THEN SkipWs(s, SkipWs(s, e) + 2) + 1 ELSE 0
    ELSE IF SkipNonParen(s, e) > e /\ Lit(s, SkipNonParen(s, e), <<")">>)
         THEN SkipNonParen(s, e) + 1 ELSE 0

MatchPreloadEnd(m, z) == IF z = 0 THEN NoMatch ELSE [m EXCEPT !.next = z]

MatchPreloadComma(tail, s, m, e) ==
    IF ~Lit(s, e, <<",">>) THEN NoMatch ELSE MatchPreloadEnd(m, TailEnd(tail, s, e + 1))

MatchPreloadTail(tail, s, m) ==
    IF ~m.ok THEN NoMatch ELSE MatchPreloadComma(tail, s, m, SkipWs(s, m.next))

MatchPreloadArrow(tail, s, c) ==
    IF ~Lit(s, c, <<"=", ">">>) THEN NoMatch
    ELSE MatchPreloadTail(tail, s, MatchImport("abs", s, SkipWs(s, c + 2)))

MatchPreloadParams(tail, s, b) ==
    IF ~Lit(s, b, <<"(", ")">>) THEN NoMatch ELSE MatchPreloadArrow(tail, s, SkipWs(s, b + 2))

MatchPreloadOpen(tail, s, a) ==
    IF ~Lit(s, a, <<"(">>) THEN NoMatch ELSE MatchPreloadParams(tail, s, SkipWs(s, a + 1))

\* /__vitePreload\s*\(\s*\(\)\s*=>\s*import\s*\((['"])\/pkg\/([^'"]+)\1\)\s*,TAIL/
\* at position i
MatchPreload(tail, s, i) ==
    IF ~Lit(s, i, <<"_", "_", "v", "i", "t", "e", "P", "r", "e", "l", "o", "a", "d">>) THEN NoMatch
    ELSE MatchPreloadOpen(tail, s, SkipWs(s, i + 13))

MatchUrlEnd(s, q, a, e, g) ==
    IF ~Lit(s, g, <<"i", "m", "p", "o", "r", "t", ".", "m", "e", "t", "a", ".", "u", "r", "l", ")">>) THEN NoMatch
    ELSE [ok |-> TRUE, next |-> g + 16, quote |-> q, path |-> SubSeq(s, a + 1, e - 1)]

MatchUrlPath(s, q, a, e) ==
    IF e = a + 1 \/ e > Len(s) THEN NoMatch
    ELSE IF s[e] # q THEN NoMatch
    ELSE IF ~Lit(s, e + 1, <<",">>) THEN NoMatch
    ELSE MatchUrlEnd(s, q, a, e, SkipWs(s, e + 2))

\* /new URL\((['"])([^'"]+)\1,\s*import\.meta\.url\)/ at position i: line 76
MatchUrl(s, i) ==
    IF ~Lit(s, i, <<"n", "e", "w", " ", "U", "R", "L", "(">>) THEN NoMatch
    ELSE IF ~(i + 8 <= Len(s)) THEN NoMatch
    ELSE IF ~IsQuote(s[i + 8]) THEN NoMatch
    ELSE MatchUrlPath(s, s[i + 8], i + 8, SkipNonQuote(s, i + 9))

Match(p, s, i) ==
    CASE p \in {"rel1", "rel2"} -> MatchImport(p, s, i)
      [] p \in {"vp1", "vp2"} -> MatchPreload(p, s, i)
      [] OTHER -> MatchUrl(s, i)

\* the replacement callbacks: lines 136, 144, 213, 221 and lines 78-79
Replacement(p, m, moduleName) ==
    IF p = "url"
    THEN <<m.quote>> \o <<"/", "p", "k", "g", "/">> \o moduleName \o <<"/">> \o m.path \o <<m.quote>>
    ELSE <<"i", "m", "p", "o", "r", "t", "(">> \o <<m.quote>> \o <<"/", "p", "k", "g", "/">> \o m.path \o <<m.quote>> \o <<")">>

\* the least position of a set of positions, 0 for the empty set
LeastOrZero(hits) == IF hits = {} THEN 0 ELSE CHOOSE h \in hits : \A k \in hits : h <= k

\* where the next match of p starts at or after i, 0 when there is none
NextMatch(p, s, i) == LeastOrZero({j \in i..Len(s) : Match(p, s, j).ok})

RECURSIVE ReplaceFrom(_, _, _, _)

ReplaceMatch(p, s, i, moduleName, j, m) ==
    SubSeq(s, i, j - 1) \o Replacement(p, m, moduleName)
        \o ReplaceFrom(p, s, m.next, moduleName)

ReplaceAt(p, s, i, moduleName, j) ==
    IF j = 0 THEN SubSeq(s, i, Len(s))
    ELSE ReplaceMatch(p, s, i, moduleName, j, Match(p, s, j))

\* String.prototype.replace with a /g pattern: matches are taken left to
\* right, the search resuming after each match
ReplaceFrom(p, s, i, moduleName) == ReplaceAt(p, s, i, moduleName, NextMatch(p, s, i))

ReplaceAll(p, s) == ReplaceFrom(p, s, 1, <<>>)

----------------------------------------------------------------------------
(* vite.config.ts: rewriteWasmImports and removeVitePreload *)

\* a rewriter that knows the single-level form ../pkg/ only
RewriteImportsSingleLevel(code) == ReplaceAll("rel2", code)

\* rewriteWasmImports.renderChunk, lines 203-229, and the same two
\* replacements in generateBundle, lines 234-251
RewriteImports(code) == ReplaceAll("rel2", ReplaceAll("rel1", code))

\* removeVitePreload.renderChunk, lines 115-152: the code it leaves the chunk with
RemovePreload(code) ==
    IF ~Includes(code, <<"/", "p", "k", "g", "/">>) THEN code
    ELSE IF ~(Includes(code, <<"_", "_", "v", "i", "t", "e", "P", "r", "e", "l", "o", "a", "d">>) /\ Includes(code, <<"/", "p", "k", "g", "/">>)) THEN code
    ELSE ReplaceAll("vp2", ReplaceAll("vp1", code))

\* import[^)]*\/pkg[^)]*\) inside the stretch a..z-1 that holds no ")", z holding one
CandidateInside(code, a, z) ==
    /\ z <= Len(code)
    /\ \E j \in a..(z - 1) :
          /\ Lit(code, j, <<"i", "m", "p", "o", "r", "t">>) /\ j + 5 < z
          /\ \E k \in (j + 6)..(z - 1) : Lit(code, k, <<"/", "p", "k", "g">>) /\ k + 3 < z

\* /__vitePreload[^)]*import[^)]*\/pkg[^)]*\)/ matches somewhere: lines 159-163
HasPreloadCandidate(code) ==
    \E i \in 1..Len(code) :
        /\ Lit(code, i, <<"_", "_", "v", "i", "t", "e", "P", "r", "e", "l", "o", "a", "d">>)
        /\ CandidateInside(code, i + 13, SkipNonParen(code, i + 13))

\* removeVitePreload.generateBundle, lines 153-195, for one chunk
RemovePreloadBundle(code) ==
    IF ~HasPreloadCandidate(code) THEN code
    ELSE ReplaceAll("vp2", ReplaceAll("vp1", code))

----------------------------------------------------------------------------
(* The chunks the build is run on *)

\* pieces of generated code
FragRelDouble == <<"i", "m", "p", "o", "r", "t", "(", "\"", ".", ".", "/", "p", "k", "g", "/", "m", "\"", ")">>
FragRelDeep == <<"i", "m", "p", "o", "r", "t", "(", "'", ".", ".", "/", ".", ".", "/", "p", "k", "g", "/", "a", "/", "b", ".", "j", "s", "'", ")">>
FragRelSpaced == <<"i", "m", "p", "o", "r", "t", " ", "(", "\"", ".", ".", "/", "p", "k", "g", "/", "m", "\"", ")">>
FragAbs == <<"i", "m", "p", "o", "r", "t", "(", "\"", "/", "p", "k", "g", "/", "m", "\"", ")">>
FragMismatch == <<"i", "m", "p", "o", "r", "t", "(", "\"", ".", ".", "/", "p", "k", "g", "/", "m", "'", ")">>
FragWrapOpen == <<"_", "_", "v", "i", "t", "e", "P", "r", "e", "l", "o", "a", "d", "(", "(", ")", "=", ">">>
FragDepsEmpty == <<",", "[", "]", ")">>
FragDepsCond == <<",", "d", "?", "p", ":", "v", ")">>
FragClose == <<")">>
FragWrapSpaced == <<"_", "_", "v", "i", "t", "e", "P", "r", "e", "l", "o", "a", "d", "(", " ", "(", ")", " ", "=", ">", " ", "i", "m", "p", "o", "r", "t", "(", "'", "/", "p", "k", "g", "/", "m", "'", ")", " ", ",", " ", "d", "?", "p", ":", "v", " ", ")">>
FragPreloadRef == <<"_", "_", "v", "i", "t", "e", "P", "r", "e", "l", "o", "a", "d", ";">>
FragOther == <<";", "x", "(", ")", "\n">>

Fragments ==
    [RelDouble |-> FragRelDouble, RelDeep |-> FragRelDeep,
     RelSpaced |-> FragRelSpaced, Abs |-> FragAbs, Mismatch |-> FragMismatch,
     WrapOpen |-> FragWrapOpen, DepsEmpty |-> FragDepsEmpty,
     DepsCond |-> FragDepsCond, Close |-> FragClose,
     WrapSpaced |-> FragWrapSpaced, PreloadRef |-> FragPreloadRef,
     Other |-> FragOther]

RECURSIVE SeqsUpTo(_, _)
\* the sequences over S of length 0..n
SeqsUpTo(S, n) ==
    IF n = 0 THEN {<<>>}
    ELSE LET shorter == SeqsUpTo(S, n - 1)
         IN  shorter \cup {Append(q, x) : q \in shorter, x \in S}

ChunkInputs == SeqsUpTo(DOMAIN Fragments, MaxFrags) \ {<<>>}

TextOf(frags) == Flatten([i \in 1..Len(frags) |-> Fragments[frags[i]]])

----------------------------------------------------------------------------
(* The build of one chunk: the hooks in the order Vite runs them.
   removeVitePreload is enforce: 'post' (line 114), so in every hook it
   runs after rewriteWasmImports although it is listed first (line 369). *)

BuildInit ==
    /\ chunkFrags \in ChunkInputs
    /\ chunkCode = TextOf(chunkFrags)
    /\ renderedCode = <<>>
    /\ phase = "emitted"
    /\ RtIdle
    /\ ValIdle
    /\ CopyIdle
    /\ ThrIdle

RewriteRenderChunk ==
    /\ phase = "emitted"
    /\ chunkCode' = RewriteImports(chunkCode)
    /\ phase' = "rewritten"
    /\ UNCHANGED <<chunkFrags, renderedCode, rtVars, valVars, copyVars, thrVars>>

RemoveRenderChunk ==
    /\ phase = "rewritten"
    /\ chunkCode' = RemovePreload(chunkCode)
    /\ renderedCode' = chunkCode'
    /\ phase' = "rendered"
    /\ UNCHANGED <<chunkFrags, rtVars, valVars, copyVars, thrVars>>

RewriteGenerateBundle ==
    /\ phase = "rendered"
    /\ chunkCode' = RewriteImports(chunkCode)
    /\ phase' = "bundled"
    /\ UNCHANGED <<chunkFrags, renderedCode, rtVars, valVars, copyVars, thrVars>>

RemoveGenerateBundle ==
    /\ phase = "bundled"
    /\ chunkCode' = RemovePreloadBundle(chunkCode)
    /\ phase' = "written"
    /\ UNCHANGED <<chunkFrags, renderedCode, rtVars, valVars, copyVars, thrVars>>

BuildNext ==
    \/ RewriteRenderChunk
    \/ RemoveRenderChunk
    \/ RewriteGenerateBundle
    \/ RemoveGenerateBundle

SpecBuild == BuildInit /\ [][BuildNext]_vars

----------------------------------------------------------------------------
(* vite.config.ts: copyDir, validateWasmModuleExports, copyWasmModules *)

\* String.prototype.endsWith
EndsWith(s, l) == Len(s) >= Len(l) /\ SubSeq(s, Len(s) - Len(l) + 1, Len(s)) = l

\* content.length: the text that is spelled out and the rest of the file
ContentLength(c) == Len(c.text) + c.filler

\* a thrown Error
BuildError(kind, path, missing) == [kind |-> kind, path |-> path, missing |-> missing]

ExportKeywords == {<<"f", "u", "n", "c", "t", "i", "o", "n">>, <<"c", "o", "n", "s", "t">>, <<"l", "e", "t">>, <<"v", "a", "r">>, <<"d", "e", "f", "a", "u", "l", "t">>, <<"{">>}

\* /^export\s+(function|const|let|var|default|{)/gm matches at position i: line 84
ExportStatementAt(s, i) ==
    /\ i = 1 \/ s[i - 1] = "\n"
    /\ Lit(s, i, <<"e", "x", "p", "o", "r", "t">>)
    /\ SkipWs(s, i + 6) > i + 6
    /\ \E kw \in ExportKeywords : Lit(s, SkipWs(s, i + 6), kw)

ExportCount(s) == Cardinality({i \in 1..Len(s) : ExportStatementAt(s, i)})

DeclKeywords == {<<"f", "u", "n", "c", "t", "i", "o", "n">>, <<"c", "o", "n", "s", "t">>, <<"l", "e", "t">>, <<"v", "a", "r">>}

ExportOfName(s, name, b) ==
    /\ Lit(s, b, name)
    /\ Lit(s, SkipWs(s, b + Len(name)), <<"=">>) \/ Lit(s, SkipWs(s, b + Len(name)), <<"(">>)

ExportOfKeyword(s, name, kw, a) ==
    /\ Lit(s, a, kw)
    /\ SkipWs(s, a + Len(kw)) > a + Len(kw)
    /\ ExportOfName(s, name, SkipWs(s, a + Len(kw)))

\* new RegExp(`export\\s+(function|const|let|var)\\s+${exportName}\\s*[=(]`)
\* matches at position i: line 279
ExportOfAt(s, i, name) ==
    /\ Lit(s, i, <<"e", "x", "p", "o", "r", "t">>)
    /\ SkipWs(s, i + 6) > i + 6
    /\ \E kw \in DeclKeywords : ExportOfKeyword(s, name, kw, SkipWs(s, i + 6))

\* exportPattern.test(content)
HasExportOf(s, name) == \E i \in 1..Len(s) : ExportOfAt(s, i, name)

\* expectedExports, lines 263-269
ExpectedExports ==
    (<<"w", "a", "s", "m", "_", "a", "g", "e", "n", "t", "_", "t", "o", "o", "l", "s">> :> <<<<"c", "a", "l", "c", "u", "l", "a", "t", "e">>, <<"p", "r", "o", "c", "e", "s", "s", "_", "t", "e", "x", "t">>, <<"g", "e", "t", "_", "s", "t", "a", "t", "s">>>>)
    @@ (<<"w", "a", "s", "m", "_", "p", "r", "e", "p", "r", "o", "c", "e", "s", "s", "_", "i", "m", "a", "g", "e", "_", "c", "a", "p", "t", "i", "o", "n", "i", "n", "g">> :>
            <<<<"p", "r", "e", "p", "r", "o", "c", "e", "s", "s", "_", "i", "m", "a", "g", "e">>, <<"p", "r", "e", "p", "r", "o", "c", "e", "s", "s", "_", "i", "m", "a", "g", "e", "_", "c", "r", "o", "p">>, <<"a", "p", "p", "l", "y", "_", "c", "o", "n", "t", "r", "a", "s", "t">>,
              <<"a", "p", "p", "l", "y", "_", "c", "i", "n", "e", "m", "a", "t", "i", "c", "_", "f", "i", "l", "t", "e", "r">>, <<"g", "e", "t", "_", "p", "r", "e", "p", "r", "o", "c", "e", "s", "s", "_", "s", "t", "a", "t", "s">>, <<"s", "e", "t", "_", "c", "o", "n", "t", "r", "a", "s", "t">>,
              <<"s", "e", "t", "_", "c", "i", "n", "e", "m", "a", "t", "i", "c">>, <<"g", "e", "t", "_", "c", "o", "n", "t", "r", "a", "s", "t">>, <<"g", "e", "t", "_", "c", "i", "n", "e", "m", "a", "t", "i", "c">>,
              <<"a", "p", "p", "l", "y", "_", "s", "e", "p", "i", "a", "_", "f", "i", "l", "t", "e", "r">>, <<"s", "e", "t", "_", "s", "e", "p", "i", "a">>>>)
    @@ (<<"w", "a", "s", "m", "_", "p", "r", "e", "p", "r", "o", "c", "e", "s", "s">> :>
            <<<<"p", "r", "e", "p", "r", "o", "c", "e", "s", "s", "_", "i", "m", "a", "g", "e">>, <<"p", "r", "e", "p", "r", "o", "c", "e", "s", "s", "_", "i", "m", "a", "g", "e", "_", "c", "r", "o", "p">>,
              <<"p", "r", "e", "p", "r", "o", "c", "e", "s", "s", "_", "i", "m", "a", "g", "e", "_", "f", "o", "r", "_", "s", "m", "o", "l", "v", "l", "m">>, <<"a", "p", "p", "l", "y", "_", "c", "o", "n", "t", "r", "a", "s", "t">>,
              <<"a", "p", "p", "l", "y", "_", "c", "i", "n", "e", "m", "a", "t", "i", "c", "_", "f", "i", "l", "t", "e", "r">>, <<"g", "e", "t", "_", "p", "r", "e", "p", "r", "o", "c", "e", "s", "s", "_", "s", "t", "a", "t", "s">>, <<"s", "e", "t", "_", "c", "o", "n", "t", "r", "a", "s", "t">>,
              <<"s", "e", "t", "_", "c", "i", "n", "e", "m", "a", "t", "i", "c">>, <<"g", "e", "t", "_", "c", "o", "n", "t", "r", "a", "s", "t">>, <<"g", "e", "t", "_", "c", "i", "n", "e", "m", "a", "t", "i", "c">>>>)
    @@ (<<"w", "a", "s", "m", "_", "p", "r", "e", "p", "r", "o", "c", "e", "s", "s", "_", "2", "5", "6", "m">> :>
            <<<<"p", "r", "e", "p", "r", "o", "c", "e", "s", "s", "_", "i", "m", "a", "g", "e">>, <<"p", "r", "e", "p", "r", "o", "c", "e", "s", "s", "_", "i", "m", "a", "g", "e", "_", "c", "r", "o", "p">>, <<"a", "p", "p", "l", "y", "_", "c", "o", "n", "t", "r", "a", "s", "t">>,
              <<"a", "p", "p", "l", "y", "_", "c", "i", "n", "e", "m", "a", "t", "i", "c", "_", "f", "i", "l", "t", "e", "r">>, <<"g", "e", "t", "_", "p", "r", "e", "p", "r", "o", "c", "e", "s", "s", "_", "s", "t", "a", "t", "s">>, <<"s", "e", "t", "_", "c", "o", "n", "t", "r", "a", "s", "t">>,
              <<"s", "e", "t", "_", "c", "i", "n", "e", "m", "a", "t", "i", "c">>, <<"g", "e", "t", "_", "c", "o", "n", "t", "r", "a", "s", "t">>, <<"g", "e", "t", "_", "c", "i", "n", "e", "m", "a", "t", "i", "c">>>>)
    @@ (<<"w", "a", "s", "m", "_", "a", "s", "t", "a", "r">> :>
            <<<<"w", "a", "s", "m", "_", "i", "n", "i", "t">>, <<"t", "i", "c", "k">>, <<"k", "e", "y", "_", "d", "o", "w", "n">>, <<"k", "e", "y", "_", "u", "p">>, <<"m", "o", "u", "s", "e", "_", "m", "o", "v", "e">>>>)

\* a check that stops at the first missing name
MissingOfFirstOnly(content, expected) ==
    IF SelectSeq(expected, LAMBDA n : ~HasExportOf(content.text, n)) = <<>> THEN <<>>
    ELSE <<Head(SelectSeq(expected, LAMBDA n : ~HasExportOf(content.text, n)))>>

MissingOf(content, expected) ==
    SelectSeq(expected, LAMBDA n : ~HasExportOf(content.text, n))

\* a check that refuses a module without an entry in the table
validateWasmModuleExportsStrict(content, filePath, moduleName) ==
    IF moduleName \notin DOMAIN ExpectedExports
    THEN BuildError("missing required exports", filePath, <<>>)
    ELSE IF MissingOf(content, ExpectedExports[moduleName]) # <<>>
    THEN BuildError("missing required exports", filePath,
                    MissingOf(content, ExpectedExports[moduleName]))
    ELSE NULL

\* validateWasmModuleExports, lines 259-294: the error it throws, NULL when it returns
validateWasmModuleExports(content, filePath, moduleName) ==
    IF moduleName \notin DOMAIN ExpectedExports THEN NULL
    ELSE IF MissingOf(content, ExpectedExports[moduleName]) # <<>>
    THEN BuildError("missing required exports", filePath,
                    MissingOf(content, ExpectedExports[moduleName]))
    ELSE NULL

\* the replace of lines 75-81
RewriteUrls(content, moduleName) ==
    [content EXCEPT !.text = ReplaceFrom("url", @, 1, moduleName)]

\* what readFileSync finds at destPath after writeFileSync of content
Stored(destPath, content) ==
    IF destPath \in truncates THEN [text |-> <<>>, filler |-> 0] ELSE content

\* writeFileSync and the read-back of lines 94-100
WriteVerified(out, destPath, content) ==
    IF ContentLength(Stored(destPath, content)) # ContentLength(content)
    THEN [out EXCEPT !.files = (destPath :> Stored(destPath, content)) @@ @,
                     !.error = BuildError("write verification failed", destPath, <<>>)]
    ELSE [out EXCEPT !.files = (destPath :> Stored(destPath, content)) @@ @]

\* a copy that writes the file before it looks at it
CheckAndWriteFirst(out, destPath, name, content) ==
    IF ExportCount(content.text) = 0 /\ Includes(name, <<"w", "a", "s", "m", "_">>)
    THEN [WriteVerified(out, destPath, content) EXCEPT
              !.error = BuildError("no exports", destPath, <<>>)]
    ELSE IF /\ ContentLength(content) < SmallFileLimit
            /\ Includes(name, <<"w", "a", "s", "m", "_">>)
            /\ ~Includes(name, <<".", "d", ".", "t", "s">>)
    THEN [WriteVerified(out, destPath, content) EXCEPT
              !.error = BuildError("suspiciously small", destPath, <<>>)]
    ELSE WriteVerified(out, destPath, content)

\* lines 83-92 on the rewritten content, then the write
CheckAndWrite(out, destPath, name, content) ==
    IF ExportCount(content.text) = 0 /\ Includes(name, <<"w", "a", "s", "m", "_">>)
    THEN [out EXCEPT !.error = BuildError("no exports", destPath, <<>>)]
    ELSE IF /\ ContentLength(content) < SmallFileLimit
            /\ Includes(name, <<"w", "a", "s", "m", "_">>)
            /\ ~Includes(name, <<".", "d", ".", "t", "s">>)
    THEN [out EXCEPT !.error = BuildError("suspiciously small", destPath, <<>>)]
    ELSE WriteVerified(out, destPath, content)

\* the .js branch of copyDir, lines 63-100
CopyJsFile(out, destPath, name, moduleName, content) ==
    IF ContentLength(content) = 0
    THEN [out EXCEPT !.error = BuildError("Empty file", destPath, <<>>)]
    ELSE CheckAndWrite(out, destPath, name, RewriteUrls(content, moduleName))

\* the heads of the glue files
HeadAll == <<"e", "x", "p", "o", "r", "t", " ", "f", "u", "n", "c", "t", "i", "o", "n", " ", "w", "a", "s", "m", "_", "i", "n", "i", "t", "(", ")", "{", "}", "\n", "e", "x", "p", "o", "r", "t", " ", "f", "u", "n", "c", "t", "i", "o", "n", " ", "t", "i", "c", "k", "(", ")", "{", "}", "\n", "e", "x", "p", "o", "r", "t", " ", "f", "u", "n", "c", "t", "i", "o", "n", " ", "k", "e", "y", "_", "d", "o", "w", "n", "(", ")", "{", "}", "\n", "e", "x", "p", "o", "r", "t", " ", "c", "o", "n", "s", "t", " ", "k", "e", "y", "_", "u", "p", " ", "=", " ", "f", ";", "\n", "e", "x", "p", "o", "r", "t", " ", "f", "u", "n", "c", "t", "i", "o", "n", " ", "m", "o", "u", "s", "e", "_", "m", "o", "v", "e", " ", "(", ")", "{", "}", "\n", "e", "x", "p", "o", "r", "t", " ", "d", "e", "f", "a", "u", "l", "t", " ", "i", "n", "i", "t", ";", "\n">>
HeadPartial == <<"e", "x", "p", "o", "r", "t", " ", "f", "u", "n", "c", "t", "i", "o", "n", " ", "w", "a", "s", "m", "_", "i", "n", "i", "t", "(", ")", "{", "}", "\n", "e", "x", "p", "o", "r", "t", " ", "f", "u", "n", "c", "t", "i", "o", "n", " ", "k", "e", "y", "_", "d", "o", "w", "n", "(", ")", "{", "}", "\n", "e", "x", "p", "o", "r", "t", " ", "d", "e", "f", "a", "u", "l", "t", " ", "i", "n", "i", "t", ";", "\n">>
HeadNone == <<"f", "u", "n", "c", "t", "i", "o", "n", " ", "f", "(", ")", "{", "}", "\n">>

JsHeads == [All |-> HeadAll, Partial |-> HeadPartial, None |-> HeadNone, Empty |-> <<>>]

\* pieces of the glue code
UrlSingle == <<"n", "e", "w", " ", "U", "R", "L", "(", "'", "a", "_", "b", "g", ".", "w", "a", "s", "m", "'", ",", " ", "i", "m", "p", "o", "r", "t", ".", "m", "e", "t", "a", ".", "u", "r", "l", ")">>
UrlTight == <<"n", "e", "w", " ", "U", "R", "L", "(", "\"", "a", "_", "b", "g", ".", "w", "a", "s", "m", "\"", ",", "i", "m", "p", "o", "r", "t", ".", "m", "e", "t", "a", ".", "u", "r", "l", ")">>
UrlDynamic == <<"n", "e", "w", " ", "U", "R", "L", "(", "x", ",", " ", "i", "m", "p", "o", "r", "t", ".", "m", "e", "t", "a", ".", "u", "r", "l", ")">>
UrlOther == <<";", "x", "(", ")", "\n">>

UrlFragments ==
    [Single |-> UrlSingle, Tight |-> UrlTight, Dynamic |-> UrlDynamic, Other |-> UrlOther]

\* readFileSync of a file of pkg/
SourceContent(file) ==
    [text |-> JsHeads[file.head]
                \o Flatten([i \in 1..Len(file.body) |-> UrlFragments[file.body[i]]]),
     filler |-> file.filler]

\* names of files and directories under pkg/
NameAstar == <<"w", "a", "s", "m", "_", "a", "s", "t", "a", "r">>
NameAstarJs == <<"w", "a", "s", "m", "_", "a", "s", "t", "a", "r", ".", "j", "s">>
NameAsset == <<"a", "_", "b", "g", ".", "w", "a", "s", "m">>
NameHello == <<"w", "a", "s", "m", "_", "h", "e", "l", "l", "o">>
NameHelloJs == <<"w", "a", "s", "m", "_", "h", "e", "l", "l", "o", ".", "j", "s">>
NamePreprocess == <<"w", "a", "s", "m", "_", "p", "r", "e", "p", "r", "o", "c", "e", "s", "s">>
NamePreprocessJs == <<"w", "a", "s", "m", "_", "p", "r", "e", "p", "r", "o", "c", "e", "s", "s", ".", "j", "s">>
NameSnippets == <<"s", "n", "i", "p", "p", "e", "t", "s">>
NameInline == <<"i", "n", "l", "i", "n", "e", "0", ".", "j", "s">>

\* the order in which readdirSync lists names
ReaddirOrder ==
    <<NameAsset, NameInline, NameSnippets, NameAstar, NameAstarJs, NameHello, NameHelloJs,
      NamePreprocess, NamePreprocessJs>>

\* the files below a directory; paths are relative to pkg/ and to dist/pkg/
Under(tree, dir) ==
    {p \in DOMAIN tree : Len(p) > Len(dir) /\ SubSeq(p, 1, Len(dir)) = dir}

\* readdirSync(src, { withFileTypes: true })
Entries(tree, dir) ==
    SelectSeq(ReaddirOrder, LAMBDA n : \E p \in Under(tree, dir) : p[Len(dir) + 1] = n)

\* entry.isDirectory()
IsDirectory(tree, p) == p \notin DOMAIN tree

\* mkdirSync(dest, { recursive: true })
MkdirRecursive(out, dir) ==
    [out EXCEPT !.dirs = @ \cup {SubSeq(dir, 1, k) : k \in 0..Len(dir)}]

RECURSIVE CopyDir(_, _, _, _)
RECURSIVE CopyEntries(_, _, _, _, _)

\* the body of the loop of copyDir, lines 58-104
CopyEntry(tree, dir, name, moduleName, out) ==
    IF IsDirectory(tree, Append(dir, name))
    THEN CopyDir(tree, Append(dir, name), moduleName, out)
    ELSE IF EndsWith(name, <<".", "j", "s">>)
    THEN CopyJsFile(out, Append(dir, name), name, moduleName,
                    SourceContent(tree[Append(dir, name)]))
    ELSE [out EXCEPT !.files =
              (Append(dir, name) :> SourceContent(tree[Append(dir, name)])) @@ @]

\* the loop of copyDir over the entries left; a thrown error ends it
CopyEntries(tree, dir, names, moduleName, out) ==
    IF names = <<>> \/ out.error # NULL THEN out
    ELSE CopyEntries(tree, dir, Tail(names), moduleName,
                     CopyEntry(tree, dir, Head(names), moduleName, out))

\* copyDir(src, dest, moduleName), lines 48-105, src and dest being pkg/dir
\* and dist/pkg/dir
CopyDir(tree, dir, moduleName, out) ==
    IF Under(tree, dir) = {} THEN out
    ELSE CopyEntries(tree, dir, Entries(tree, dir), moduleName, MkdirRecursive(out, dir))

\* lines 326-329 and 355-358
ValidateCopied(out, jsFilePath, moduleName) ==
    IF out.error = NULL /\ jsFilePath \in DOMAIN out.files
    THEN [out EXCEPT !.error =
              validateWasmModuleExports(out.files[jsFilePath], jsFilePath, moduleName)]
    ELSE out

RECURSIVE CopyModules(_, _, _)
\* the loop over the entries of pkg/, lines 315-331 and 346-360
CopyModules(tree, names, out) ==
    IF names = <<>> \/ out.error # NULL THEN out
    ELSE IF ~IsDirectory(tree, <<Head(names)>>) THEN CopyModules(tree, Tail(names), out)
    ELSE CopyModules(tree, Tail(names),
             ValidateCopied(CopyDir(tree, <<Head(names)>>, Head(names), out),
                            <<Head(names), Head(names) \o <<".", "j", "s">>>>, Head(names)))

\* a writeBundle that copies over what dist/pkg holds
CleanDistKeep(files, dirs) ==
    [files |-> files, dirs |-> dirs, error |-> NULL]

\* rmSync(distPkgDir, { recursive: true, force: true }) when it exists
CleanDist(files, dirs) ==
    IF dirs # {} THEN [files |-> NoFiles, dirs |-> {}, error |-> NULL]
    ELSE [files |-> files, dirs |-> dirs, error |-> NULL]

----------------------------------------------------------------------------
(* The inputs of the copy: the pkg/ directory of the build *)

BinaryFile == [head |-> "Empty", body |-> <<>>, filler |-> SmallFileLimit]

EmptyFile == [head |-> "Empty", body |-> <<>>, filler |-> 0]

UrlInputs == SeqsUpTo(DOMAIN UrlFragments, MaxUrls)

GlueInputs ==
    [head : {"All", "Partial", "None"}, body : UrlInputs, filler : {0, SmallFileLimit}]
        \cup {EmptyFile}

NestedInputs == [head : {"None"}, body : {<<"Single">>, <<"Other">>}, filler : {0}]

AstarTree(glue, nested) ==
    (<<NameAstar, NameAstarJs>> :> glue)
    @@ (<<NameAstar, NameAsset>> :> BinaryFile)
    @@ (IF nested = NULL THEN NoFiles
        ELSE (<<NameAstar, NameSnippets, NameInline>> :> nested)
             @@ (<<NameAstar, NameSnippets, NameAsset>> :> BinaryFile))

HelloTrees ==
    {NoFiles,
     <<NameHello, NameHelloJs>> :> [head |-> "Partial", body |-> <<"Single">>, filler |-> SmallFileLimit],
     <<NameHello, NameHelloJs>> :> [head |-> "Partial", body |-> <<"Single">>, filler |-> 0]}

PreprocessTrees ==
    {NoFiles,
     <<NamePreprocess, NamePreprocessJs>> :> [head |-> "Partial", body |-> <<>>, filler |-> SmallFileLimit]}

PkgTrees ==
    {NoFiles} \cup
    {AstarTree(g, n) @@ h @@ q :
         g \in GlueInputs, n \in NestedInputs \cup {NULL}, h \in HelloTrees,
         q \in PreprocessTrees}

\* what an earlier build of another tree left in dist/pkg
StaleFiles == <<NameHello, <<"o", "l", "d", ".", "j", "s">>>> :> [text |-> UrlOther, filler |-> 0]

----------------------------------------------------------------------------
(* The copy plugin: buildEnd runs at the end of the build phase, writeBundle
   after the bundle is on disk; a thrown error fails the build. *)

CopyInit ==
    /\ pkgTree \in PkgTrees
    /\ truncates \in {{}, {<<NameAstar, NameSnippets, NameInline>>} \cap DOMAIN pkgTree}
    /\ \/ distFiles = NoFiles /\ distDirs = {}
       \/ distFiles = StaleFiles /\ distDirs = {<<>>, <<NameHello>>}
    /\ copyPhase = "idle"
    /\ copyError = NULL
    /\ builds = 1
    /\ RtIdle
    /\ ValIdle
    /\ BuildIdle
    /\ ThrIdle

Finish(out, nextPhase) ==
    /\ distFiles' = out.files
    /\ distDirs' = out.dirs
    /\ copyError' = out.error
    /\ copyPhase' = IF out.error # NULL THEN "failed" ELSE nextPhase

\* copyWasmModules.buildEnd, lines 339-364
BuildEnd ==
    /\ copyPhase = "idle"
    /\ IF DOMAIN pkgTree # {} /\ distDirs = {}
       THEN Finish(CopyModules(pkgTree, Entries(pkgTree, <<>>),
                               [files |-> distFiles, dirs |-> distDirs, error |-> NULL]),
                   "built")
       ELSE copyPhase' = "built" /\ UNCHANGED <<distFiles, distDirs, copyError>>
    /\ UNCHANGED <<pkgTree, truncates, builds, rtVars, valVars, buildVars, thrVars>>

\* copyWasmModules.writeBundle, lines 303-338
WriteBundle ==
    /\ copyPhase = "built"
    /\ IF DOMAIN pkgTree # {}
       THEN Finish(CopyModules(pkgTree, Entries(pkgTree, <<>>),
                               CleanDist(distFiles, distDirs)),
                   "written")
       ELSE copyPhase' = "written" /\ UNCHANGED <<distFiles, distDirs, copyError>>
    /\ UNCHANGED <<pkgTree, truncates, builds, rtVars, valVars, buildVars, thrVars>>

\* the build is run again on the same pkg/
Rebuild ==
    /\ copyPhase \in {"written", "failed"}
    /\ builds < MaxBuilds
    /\ builds' = builds + 1
    /\ copyPhase' = "idle"
    /\ copyError' = NULL
    /\ UNCHANGED <<pkgTree, truncates, distFiles, distDirs, rtVars, valVars, buildVars, thrVars>>

CopyNext ==
    \/ BuildEnd
    \/ WriteBundle
    \/ Rebuild

SpecCopy == CopyInit /\ [][CopyNext]_vars

----------------------------------------------------------------------------
(* part_000: throttle(fn, wait). The clock is Date.now(); a timer set for a
   delay fires once the clock has advanced by the delay, or later. *)

ArgValues == [value : 1..NumArgs]

\* a delay that ignores the time already elapsed
RemainingNone(w, elapsed) == 0

\* const remaining = wait - elapsed, line 34
Remaining(w, elapsed) == w - elapsed

\* invoke(), lines 15-20, with lastArgs holding args; recent is what the
\* most recent call of the wrapper was given and k the number of that call
Invoke(args, recent, k) ==
    IF args = NULL
    THEN lastArgs' = args /\ UNCHANGED <<lastInvoke, fnLog>>
    ELSE /\ lastInvoke' = now
         /\ fnLog' = Append(fnLog, [at |-> now, args |-> args, latest |-> recent,
                                     call |-> k, afterDestroy |-> destroyed])
         /\ lastArgs' = NULL

ThrInit ==
    /\ now \in 0..MaxWait
    /\ wait \in 0..MaxWait
    /\ timeoutId = NULL
    /\ lastArgs = NULL
    /\ lastInvoke = 0
    /\ fnLog = <<>>
    /\ lastCall = NULL
    /\ calls = 0
    /\ destroyed = FALSE
    /\ ariaValue = NULL
    /\ RtIdle
    /\ ValIdle
    /\ BuildIdle
    /\ CopyIdle

\* a wrapper that leaves the stored arguments alone while a timer is pending
WrapperDropping(a) ==
    /\ calls < MaxCalls
    /\ calls' = calls + 1
    /\ lastCall' = a
    /\ IF now - lastInvoke >= wait
       THEN timeoutId' = NULL /\ Invoke(a, a, calls + 1)
       ELSE IF timeoutId = NULL
       THEN /\ timeoutId' = [due |-> now + Remaining(wait, now - lastInvoke)]
            /\ lastArgs' = a
            /\ UNCHANGED <<lastInvoke, fnLog>>
       ELSE UNCHANGED <<lastArgs, timeoutId, lastInvoke, fnLog>>
    /\ UNCHANGED <<now, wait, rtVars, valVars, buildVars, copyVars>>

\* the function throttle returns, lines 22-40
Wrapper(a) ==
    /\ calls < MaxCalls
    /\ calls' = calls + 1
    /\ lastCall' = a
    /\ IF now - lastInvoke >= wait
       THEN timeoutId' = NULL /\ Invoke(a, a, calls + 1)
       ELSE IF timeoutId = NULL
       THEN /\ timeoutId' = [due |-> now + Remaining(wait, now - lastInvoke)]
            /\ lastArgs' = a
            /\ UNCHANGED <<lastInvoke, fnLog>>
       ELSE /\ lastArgs' = a
            /\ UNCHANGED <<timeoutId, lastInvoke, fnLog>>
    /\ UNCHANGED <<now, wait, rtVars, valVars, buildVars, copyVars>>

\* a caller of throttle's result calls it
ThrottledCall(a) ==
    /\ Wrapper(a)
    /\ UNCHANGED <<destroyed, ariaValue>>

\* the timer callback runs, lines 35-38
TimerFire ==
    /\ timeoutId # NULL
    /\ now >= timeoutId.due
    /\ timeoutId' = NULL
    /\ Invoke(lastArgs, lastCall, calls)
    /\ UNCHANGED <<now, wait, lastCall, calls, destroyed, ariaValue,
                   rtVars, valVars, buildVars, copyVars>>

\* time passes, up to MaxTime and up to the time a pending timer is due
Tick ==
    /\ now < MaxTime \/ (timeoutId # NULL /\ now < timeoutId.due)
    /\ now' = now + 1
    /\ UNCHANGED <<wait, timeoutId, lastArgs, lastInvoke, fnLog, lastCall, calls,
                   destroyed, ariaValue, rtVars, valVars, buildVars, copyVars>>

ThrNext ==
    \/ \E a \in ArgValues : ThrottledCall(a)
    \/ TimerFire
    \/ Tick

SpecThrottle == ThrInit /\ [][ThrNext]_vars

\* time passes and a timer that is due runs its callback
SpecThrottleLive == SpecThrottle /\ WF_vars(Tick) /\ WF_vars(TimerFire)

----------------------------------------------------------------------------
(* src/unnamed/part_000: SliderController, whose onUpdate is the fn of a
   throttle with wait = throttleMs *)

\* the state the constructor leaves, lines 59-88: the throttle is created,
\* updateVisuals and throttledUpdate have been given the initial value,
\* and the input listener is registered
SliderInit ==
    /\ now \in 0..MaxWait
    /\ wait \in 0..MaxWait
    /\ \E v \in ArgValues :
          /\ ariaValue = v
          /\ lastCall = v
          /\ IF now - 0 >= wait
             THEN /\ fnLog = <<[at |-> now, args |-> v, latest |-> v, call |-> 1,
                                afterDestroy |-> FALSE]>>
                  /\ lastInvoke = now
                  /\ lastArgs = NULL
                  /\ timeoutId = NULL
             ELSE /\ fnLog = <<>>
                  /\ lastInvoke = 0
                  /\ lastArgs = v
                  /\ timeoutId = [due |-> now + Remaining(wait, now - 0)]
    /\ calls = 1
    /\ destroyed = FALSE
    /\ RtIdle
    /\ ValIdle
    /\ BuildIdle
    /\ CopyIdle

\* an input event reaches handleInput, lines 94-98, while the listener is
\* registered
HandleInput(v) ==
    /\ ~destroyed
    /\ ariaValue' = v
    /\ Wrapper(v)
    /\ UNCHANGED destroyed

\* a destroy that also drops the pending timer and its arguments
DestroyCancelling ==
    /\ ~destroyed
    /\ destroyed' = TRUE
    /\ timeoutId' = NULL
    /\ lastArgs' = NULL
    /\ UNCHANGED <<now, wait, lastInvoke, fnLog, lastCall, calls, ariaValue,
                   rtVars, valVars, buildVars, copyVars>>

\* destroy(), lines 112-114
Destroy ==
    /\ ~destroyed
    /\ destroyed' = TRUE
    /\ UNCHANGED <<now, wait, timeoutId, lastArgs, lastInvoke, fnLog, lastCall, calls,
                   ariaValue, rtVars, valVars, buildVars, copyVars>>

SliderNext ==
    \/ \E v \in ArgValues : HandleInput(v)
    \/ Destroy
    \/ TimerFire
    \/ Tick

SpecSlider == SliderInit /\ [][SliderNext]_vars

\* time passes and a timer that is due runs its callback
SpecSliderLive == SpecSlider /\ WF_vars(Tick) /\ WF_vars(TimerFire)

----------------------------------------------------------------------------
(* Properties of the run-time loader *)

ImportsInFlight == {t \in Tasks : pc[t] = "awaitImport"}

\* C1: single-flight load. While one request's dynamic import is
\* unresolved, no other request has an import of its own in flight.
C1_SingleFlight == Cardinality(ImportsInFlight) <= 1

\* C2: memoization on success. A load request issued after a load has
\* succeeded neither executes the dynamic import nor runs
\* validateHelloModule.
C2_MemoizedAfterSuccess ==
    \A t \in Tasks :
        request[t].afterSuccess => ~request[t].imported /\ ~request[t].validatorRan

\* what a complete report names when the module import resolved to m
AllMissing(m) == {n \in Range(ExportNames) : m[n] # "function"}

\* C3: complete failure report. A load that fails for missing or mistyped
\* exports of the imported module fails with one error naming all of them.
C3_CompleteReport ==
    \A t \in Tasks :
        (/\ lastError[t] # NULL
         /\ lastError[t].class = "WasmLoadError"
         /\ lastError[t].what = "missing export")
        => Range(lastError[t].missing) = AllMissing(pkgModule)

\* C5: validation precedes use. WASM_HELLO.wasmModule only ever holds a
\* handle validateHelloModule returned, every call into a handle (by init or
\* by a UI handler) is a call into such a handle, and an init() that got as
\* far as installing its handlers had its own validator run return a handle.
C5_ValidationPrecedesUse ==
    /\ wasmHelloModule # NULL => wasmHelloModule \in validated
    /\ \A c \in moduleCalls : c[2] \in validated
    /\ \A t \in Tasks :
          pc[t] = "ready" =>
              /\ request[t].validatorRan
              /\ loadResult[t] \in validated
    /\ \A t \in listeners : wasmHelloModule \in validated

C5_Witness ==
    \E t \in Tasks :
        /\ pc[t] = "ready"
        /\ <<"ui", wasmHelloModule>> \in moduleCalls
        /\ nextHandle >= 2

----------------------------------------------------------------------------
(* Properties of validateHelloModule *)

\* the violations present in the validator's inputs
Violations(exports, cache) ==
    {l \in {MemoryLabel} : exports.memory # "Memory"}
    \cup {n \in Range(FunctionNames) : cache[n] # "function"}

C14_ErrorsRethrown ==
    /\ [](\A t \in Tasks :
            pc[t] = "ready" =>
                /\ lastError[t] = NULL
                /\ FirstMissing(pkgModule) = <<>>
                /\ loadResult[t] \in validated
                /\ t \in listeners)
    /\ [](\A t \in Tasks : pc[t] = "failed" => lastError[t] # NULL)
    /\ [][\A t \in Tasks :
            (pc[t] # "failed" /\ pc'[t] = "failed") =>
                /\ listeners' = listeners
                /\ (errorEl /\ lastError'[t].what # "ui elements")
                       => errorText' = Render(lastError'[t])]_vars

\* the validator returned null: init() has failed with WasmInitError, the
\* element shows it, and no listener is installed
C14_Witness ==
    \E t \in Tasks :
        /\ pc[t] = "failed"
        /\ lastError[t].what = "failed validation"
        /\ errorText = Render(lastError[t])
        /\ listeners = {}

\* C15: a failed load does not poison the cache. A getInitWasm that fails at
\* its import or at its export checks leaves wasmModuleExports and
\* WASM_HELLO.wasmModule as they were, the cache never holds an incomplete
\* module, and a load requested while the cache is null imports again.
C15_NoCachePoisoning ==
    /\ [](wasmModuleExports # NULL => FirstMissing(pkgModule) = <<>>)
    /\ [][\A t \in Tasks :
            (pc[t] = "awaitImport" /\ pc'[t] = "failed") =>
                /\ wasmModuleExports' = wasmModuleExports
                /\ wasmHelloModule' = wasmHelloModule]_vars
    /\ [][\A t \in Tasks :
            (/\ pc[t] \in {"idle", "ready", "failed"}
             /\ pc'[t] \notin {"idle", "ready", "failed"}
             /\ wasmModuleExports = NULL)
                => pc'[t] = "awaitImport" /\ request'[t].imported]_vars

\* one caller only: its first init() failed without a handle, its second
\* init() imported again and ended with a validated handle
C15_Witness ==
    \E t \in Tasks :
        /\ \A u \in Tasks \ {t} : pc[u] = "idle"
        /\ inits = 2
        /\ pc[t] = "ready"
        /\ request[t].imported
        /\ nextHandle = 1
        /\ wasmHelloModule \in validated

\* values of the module-level cache to compare a call against: null, a
\* complete module, and modules with one function of the wrong type
OtherCaches ==
    {NULL} \cup {[n \in Range(ExportNames) |-> IF n = bad THEN "other" ELSE "function"] :
                    bad \in Range(FunctionNames) \cup {"none"}}

\* C16: validateHelloModule is a pure function of the export bag passed to
\* it: the outcome of a call is the outcome the same bag gives under any
\* other value of the module-level wasmModuleExports cache.
C16_PureOfBag ==
    vResult # NULL =>
        \A c \in OtherCaches : validateHelloModule(vExports, c) = vResult

\* C22: the export cache is all-or-nothing. In every reachable state
\* wasmModuleExports is null or holds `default` and the eleven required
\* entries, each of them a function.
C22_CacheAllOrNothing ==
    \/ wasmModuleExports = NULL
    \/ /\ DOMAIN wasmModuleExports = Range(ExportNames)
       /\ \A n \in Range(ExportNames) : wasmModuleExports[n] = "function"

\* two concurrent loads: the import of one was rejected, the other has
\* filled the cache
C22_Witness ==
    /\ wasmModuleExports # NULL
    /\ \E t, u \in Tasks :
          /\ t # u
          /\ pc[t] = "failed"
          /\ lastError[t].what = "import failed"
          /\ request[u].imported
          /\ pc[u] \in {"awaitDefault", "awaitLoad", "ready"}

----------------------------------------------------------------------------
(* Properties of the build-time rewriter *)

\* C6: idempotence. On every chunk text rewriteWasmImports and
\* removeVitePreload change nothing when applied to their own output, and
\* the generateBundle passes leave a chunk that went through renderChunk
\* as renderChunk left it.
C6_Idempotent ==
    /\ (phase = "rewritten" => RewriteImports(chunkCode) = chunkCode)
    /\ (phase = "rendered" =>
            /\ RemovePreload(chunkCode) = chunkCode
            /\ RemovePreload(RewriteImports(chunkCode)) = chunkCode)
    /\ (phase = "written" => chunkCode = renderedCode)

\* what the relative-import rule makes of one piece of generated code
RelativeRule(name) ==
    CASE name \in {"RelDouble", "RelSpaced"} -> <<"i", "m", "p", "o", "r", "t", "(", "\"", "/", "p", "k", "g", "/", "m", "\"", ")">>
      [] name = "RelDeep" -> <<"i", "m", "p", "o", "r", "t", "(", "'", "/", "p", "k", "g", "/", "a", "/", "b", ".", "j", "s", "'", ")">>
      [] OTHER -> Fragments[name]

\* C7: relative-import rule. After rewriteWasmImports.renderChunk every
\* dynamic import of (../)+pkg/<rest> reads import(<q>/pkg/<rest><q>) with
\* its own quote and rest, and every other character of the chunk is as
\* it was.
C7_RelativeImportRule ==
    phase = "rewritten" =>
        chunkCode = Flatten([i \in 1..Len(chunkFrags) |-> RelativeRule(chunkFrags[i])])

\* a chunk with a two-level and a one-level relative import has been rewritten
C7_Witness ==
    /\ phase = "rewritten"
    /\ \E i, j \in 1..Len(chunkFrags) : chunkFrags[i] = "RelDeep" /\ chunkFrags[j] = "RelDouble"
    /\ chunkCode # TextOf(chunkFrags)

\* chunks that are one preload-wrapped import of an absolute /pkg/ path:
\* with [] as trailing argument, with another trailing argument, without
\* a trailing argument, and with white space and another trailing argument
WrappedCalls ==
    {<<"WrapOpen", "Abs", "DepsEmpty">>, <<"WrapOpen", "Abs", "DepsCond">>,
     <<"WrapOpen", "Abs", "Close">>, <<"WrapSpaced">>}

BareImport(frags) ==
    IF frags = <<"WrapSpaced">> THEN <<"i", "m", "p", "o", "r", "t", "(", "'", "/", "p", "k", "g", "/", "m", "'", ")">> ELSE <<"i", "m", "p", "o", "r", "t", "(", "\"", "/", "p", "k", "g", "/", "m", "\"", ")">>

\* C8: wrapper stripping. A preload-wrapped import of an absolute /pkg/
\* path leaves removeVitePreload as the bare import, with and without a
\* trailing argument in the wrapper call.
C8_WrapperStripped ==
    (phase \in {"rendered", "written"} /\ chunkFrags \in WrappedCalls)
        => chunkCode = BareImport(chunkFrags)

\* where the dynamic import of a pkg path that starts at d ends, 0 when
\* none starts there
PkgImportEnd(s, d) ==
    IF MatchImport("abs", s, d).ok THEN MatchImport("abs", s, d).next
    ELSE IF MatchImport("rel1", s, d).ok THEN MatchImport("rel1", s, d).next
    ELSE 0

HasRelativePkgImport(s) == \E i \in 1..Len(s) : MatchImport("rel1", s, i).ok

\* a call __vitePreload(() => import(<pkg path>) followed by ")" or ","
WrappedPkgImportAt(s, i) ==
    /\ Lit(s, i, <<"_", "_", "v", "i", "t", "e", "P", "r", "e", "l", "o", "a", "d">>)
    /\ LET a == SkipWs(s, i + 13)
           b == SkipWs(s, a + 1)
           c == SkipWs(s, b + 2)
           e == PkgImportEnd(s, SkipWs(s, c + 2))
       IN  /\ Lit(s, a, <<"(">>)
           /\ Lit(s, b, <<"(", ")">>)
           /\ Lit(s, c, <<"=", ">">>)
           /\ e # 0
           /\ Lit(s, SkipWs(s, e), <<")">>) \/ Lit(s, SkipWs(s, e), <<",">>)

HasWrappedPkgImport(s) == \E i \in 1..Len(s) : WrappedPkgImportAt(s, i)

\* C9: build artifact postcondition. A chunk that went through the whole
\* pipeline holds no relative dynamic import of a pkg module and no
\* preload-wrapped one, and __vitePreload(()=>import("../pkg/m"),[]) has
\* become import("/pkg/m").
C9_ArtifactPostcondition ==
    phase = "written" =>
        /\ ~HasRelativePkgImport(chunkCode)
        /\ ~HasWrappedPkgImport(chunkCode)
        /\ (chunkFrags = <<"WrapOpen", "RelDouble", "DepsEmpty">>
                => chunkCode = <<"i", "m", "p", "o", "r", "t", "(", "\"", "/", "p", "k", "g", "/", "m", "\"", ")">>)

----------------------------------------------------------------------------
(* Properties of the copy of pkg/ *)

\* the absolute path at which the file asset of directory dir of pkg/ is deployed
DeployedPath(dir, asset) ==
    <<"/", "p", "k", "g">> \o Flatten([i \in 1..Len(dir) |-> <<"/">> \o dir[i]]) \o <<"/">> \o asset

\* what the rewrite is to make of one piece of a glue file of directory dir
AssetRule(name, dir) ==
    CASE name = "Single" -> <<"'">> \o DeployedPath(dir, NameAsset) \o <<"'">>
      [] name = "Tight" -> <<"\"">> \o DeployedPath(dir, NameAsset) \o <<"\"">>
      [] OTHER -> UrlFragments[name]

\* the .js files that copyDir has copied and that read back as written
CopiedJs ==
    {p \in (DOMAIN distFiles \cap DOMAIN pkgTree) \ truncates : EndsWith(p[Len(p)], <<".", "j", "s">>)}

\* C10: glue-code asset rewrite. In every copied .js file, at any depth
\* below the module directory, each new URL(<q>A<q>, import.meta.url) has
\* become the quoted absolute path at which the A of the file's own
\* directory is deployed, and no such expression is left.
C10_GlueAssetRewrite ==
    \A p \in CopiedJs :
        /\ distFiles[p].text =
               JsHeads[pkgTree[p].head]
                   \o Flatten([i \in 1..Len(pkgTree[p].body) |->
                                  AssetRule(pkgTree[p].body[i], SubSeq(p, 1, Len(p) - 1))])
        /\ ~\E i \in 1..Len(distFiles[p].text) : MatchUrl(distFiles[p].text, i).ok

\* the names a head of a glue file declares as exports
Declared(head) ==
    CASE head = "All" -> {<<"w", "a", "s", "m", "_", "i", "n", "i", "t">>, <<"t", "i", "c", "k">>, <<"k", "e", "y", "_", "d", "o", "w", "n">>, <<"k", "e", "y", "_", "u", "p">>, <<"m", "o", "u", "s", "e", "_", "m", "o", "v", "e">>}
      [] head = "Partial" -> {<<"w", "a", "s", "m", "_", "i", "n", "i", "t">>, <<"k", "e", "y", "_", "d", "o", "w", "n">>}
      [] OTHER -> {}

\* the module directories of pkg/ whose glue file is deployed
DeployedModules ==
    {m \in {NameAstar, NameHello, NamePreprocess} :
        /\ <<m, m \o <<".", "j", "s">>>> \in DOMAIN distFiles
        /\ <<m, m \o <<".", "j", "s">>>> \in DOMAIN pkgTree}

\* the contracted symbols the deployed glue file of m does not declare
Undeclared(m) ==
    SelectSeq(ExpectedExports[m],
              LAMBDA n : n \notin Declared(pkgTree[<<m, m \o <<".", "j", "s">>>>].head))

\* a step in which a hook of the copy plugin copies pkg/: buildEnd when
\* dist/pkg does not exist, writeBundle always
CopyStep ==
    /\ DOMAIN pkgTree # {}
    /\ \/ copyPhase = "idle" /\ distDirs = {} /\ copyPhase' # "idle"
       \/ copyPhase = "built" /\ copyPhase' # "built"

\* C11: build-time export verification. When a hook has deployed the glue
\* file of a module with a contract and the file does not declare every
\* contracted symbol, the hook has failed the build with the error that
\* names exactly the undeclared symbols of that module.
C11_ExportVerification ==
    [][CopyStep =>
          \A m \in DeployedModules' :
              (m \in DOMAIN ExpectedExports /\ Undeclared(m) # <<>>)
                  => /\ copyPhase' = "failed"
                     /\ copyError'.kind = "missing required exports"
                     /\ copyError'.path = <<m, m \o <<".", "j", "s">>>>
                     /\ copyError'.missing = Undeclared(m)]_vars

\* the build failed for wasm_astar lacking tick, key_up and mouse_move
C11_Witness ==
    /\ copyPhase = "failed"
    /\ NameAstar \in DeployedModules
    /\ copyError.kind = "missing required exports"
    /\ copyError.missing = <<<<"t", "i", "c", "k">>, <<"k", "e", "y", "_", "u", "p">>, <<"m", "o", "u", "s", "e", "_", "m", "o", "v", "e">>>>

\* the module directories of pkg/ that readdirSync lists after m
ModulesAfter(m) ==
    {k \in {NameAstar, NameHello, NamePreprocess} :
        /\ Under(pkgTree, <<k>>) # {}
        /\ \E i, j \in 1..Len(ReaddirOrder) :
              i < j /\ ReaddirOrder[i] = m /\ ReaddirOrder[j] = k}

\* C12: unregistered identity. A deployed module without an entry in the
\* contract table never fails the build for its exports, whatever its glue
\* file declares, and the hook goes on to copy the module directories
\* after it.
C12_UnregisteredSkipped ==
    [][CopyStep =>
          \A m \in DeployedModules' :
              m \notin DOMAIN ExpectedExports
                  => /\ copyError' = NULL \/ copyError'.path[1] # m
                     /\ \A k \in ModulesAfter(m) : <<k>> \in distDirs']_vars

\* wasm_hello was deployed although its glue file declares two names only,
\* and the build went on to check wasm_preprocess
C12_Witness ==
    /\ NameHello \in DeployedModules
    /\ Declared(pkgTree[<<NameHello, NameHelloJs>>].head) = {<<"w", "a", "s", "m", "_", "i", "n", "i", "t">>, <<"k", "e", "y", "_", "d", "o", "w", "n">>}
    /\ copyPhase = "failed"
    /\ copyError.path = <<NamePreprocess, NamePreprocessJs>>

----------------------------------------------------------------------------
(* Properties of throttle *)

\* C13: throttle rate and freshness. Two successive invocations of fn are
\* at least wait apart by the clock the wrapper reads, and every
\* invocation gets the arguments of the most recent call of the wrapper.
C13_ThrottleRateAndFreshness ==
    /\ \A i \in 2..Len(fnLog) : fnLog[i].at - fnLog[i - 1].at >= wait
    /\ \A i \in 1..Len(fnLog) : fnLog[i].args = fnLog[i].latest

\* the timer has invoked fn a full wait after the invocation before it,
\* with the arguments of a call that replaced those the timer was set for
C13_Witness ==
    /\ Len(fnLog) = 2
    /\ wait = MaxWait
    /\ calls = MaxCalls
    /\ timeoutId = NULL
    /\ lastArgs = NULL
    /\ fnLog[2].at = fnLog[1].at + wait
    /\ fnLog[2].args # fnLog[1].args

\* hello-wasm.ts lines 281-317: the functions validateHelloModule requires
\* of wasm_hello at runtime
RuntimeContract ==
    NameHello :> <<<<"w", "a", "s", "m", "_", "i", "n", "i", "t">>, <<"g", "e", "t", "_", "c", "o", "u", "n", "t", "e", "r">>, <<"i", "n", "c", "r", "e", "m", "e", "n", "t", "_", "c", "o", "u", "n", "t", "e", "r">>, <<"g", "e", "t", "_", "m", "e", "s", "s", "a", "g", "e">>,
                   <<"s", "e", "t", "_", "m", "e", "s", "s", "a", "g", "e">>, <<"g", "e", "t", "_", "f", "a", "v", "e", "_", "c", "a", "r">>, <<"s", "e", "t", "_", "f", "a", "v", "e", "_", "c", "a", "r">>, <<"g", "e", "t", "_", "f", "a", "v", "e", "_", "t", "e", "a", "m">>,
                   <<"s", "e", "t", "_", "f", "a", "v", "e", "_", "t", "e", "a", "m">>, <<"g", "e", "t", "_", "d", "e", "c", "i", "m", "a", "l">>, <<"s", "e", "t", "_", "d", "e", "c", "i", "m", "a", "l">>>>

\* the functions the runtime validator requires of m that the deployed glue
\* file of m does not declare
RuntimeUndeclared(m) ==
    SelectSeq(RuntimeContract[m],
              LAMBDA n : n \notin Declared(pkgTree[<<m, m \o <<".", "j", "s">>>>].head))

\* C17: the build-time check enforces the runtime validator's contract.
\* When a hook has deployed the glue file of a module validated at runtime,
\* wasm_hello in particular, and the file lacks a function the runtime
\* validator requires, the hook has failed the build.
C17_SameContractAsRuntime ==
    [][CopyStep =>
          \A m \in DeployedModules' \cap DOMAIN RuntimeContract :
              RuntimeUndeclared(m) # <<>> => copyPhase' = "failed"]_vars

\* the .js files of pkg/
SourceJs == {p \in DOMAIN pkgTree : EndsWith(p[Len(p)], <<".", "j", "s">>)}

\* the content of the .js file p of pkg/ after the rewrite of its module
AfterRewrite(p) == RewriteUrls(SourceContent(pkgTree[p]), p[1])

\* p is zero-length, or is named wasm_... and has no export statement or
\* fewer than SmallFileLimit characters after the rewrite
FailsSanity(p) ==
    \/ ContentLength(SourceContent(pkgTree[p])) = 0
    \/ /\ Includes(p[Len(p)], <<"w", "a", "s", "m", "_">>)
       /\ \/ ExportCount(AfterRewrite(p).text) = 0
          \/ ContentLength(AfterRewrite(p)) < SmallFileLimit

\* C18: file sanity checks abort before deploying. A hook that copies a
\* pkg/ holding a .js file that is zero-length, or is named wasm_... and has
\* no export statement or fewer than 1000 characters after the rewrite,
\* fails the build and has not written that file; the file an error of
\* these checks names is not in dist/pkg; and a file that reads back
\* shorter than written fails the build with the verification error.
C18_SanityChecksAbort ==
    [][CopyStep =>
          /\ \A p \in SourceJs :
                FailsSanity(p) => copyPhase' = "failed" /\ p \notin DOMAIN distFiles'
          /\ (/\ copyError' # NULL
              /\ copyError'.kind \in {"Empty file", "no exports", "suspiciously small"})
                => /\ copyError'.path \in SourceJs
                   /\ FailsSanity(copyError'.path)
                   /\ copyError'.path \notin DOMAIN distFiles'
          /\ \A p \in truncates \cap DOMAIN distFiles' :
                /\ copyPhase' = "failed"
                /\ copyError' = BuildError("write verification failed", p, <<>>)]_vars

\* the build failed for a glue file that is too small: the asset next to it
\* is deployed, the glue file is not
C18_Witness ==
    /\ copyPhase = "failed"
    /\ copyError.kind = "suspiciously small"
    /\ copyError.path = <<NameAstar, NameAstarJs>>
    /\ <<NameAstar, NameAsset>> \in DOMAIN distFiles
    /\ <<NameAstar, NameAstarJs>> \notin DOMAIN distFiles

\* C19: an unrewritable asset reference is fatal. No .js file is deployed
\* with a URL built relative to its own location (import.meta.url) left in
\* its text: the build has aborted instead.
C19_UnrewritableIsFatal ==
    \A p \in CopiedJs : ~Includes(distFiles[p].text, <<"i", "m", "p", "o", "r", "t", ".", "m", "e", "t", "a", ".", "u", "r", "l">>)

\* a step of writeBundle with a pkg/ to copy
WriteBundleStep ==
    /\ DOMAIN pkgTree # {}
    /\ copyPhase = "built"
    /\ copyPhase' # "built"

\* C20: re-running the copy step is safe. After writeBundle, dist/pkg holds
\* no file that is not in pkg/, whatever an earlier build or the buildEnd
\* fallback left there; and writeBundle of a later build over the same pkg/
\* leaves dist/pkg and the outcome of the build as the earlier one left them.
C20_RerunSafe ==
    [][WriteBundleStep =>
          /\ DOMAIN distFiles' \subseteq DOMAIN pkgTree
          /\ builds > 1 =>
                /\ distFiles' = distFiles
                /\ distDirs' = distDirs]_vars

\* the second build over a pkg/ without wasm_hello has written dist/pkg,
\* and nothing of wasm_hello is in it
C20_Witness ==
    /\ builds = 2
    /\ copyPhase = "written"
    /\ Under(pkgTree, <<NameHello>>) = {}
    /\ <<NameAstar, NameAstarJs>> \in DOMAIN distFiles
    /\ DOMAIN StaleFiles \cap DOMAIN distFiles = {}

\* the most recent call of the wrapper has been passed on to fn
Delivered ==
    \/ calls = 0
    \/ /\ Len(fnLog) > 0
       /\ fnLog[Len(fnLog)].call = calls
       /\ fnLog[Len(fnLog)].args = lastCall

AfterDestroy == {i \in 1..Len(fnLog) : fnLog[i].afterDestroy}

\* C23: after destroy() no input event reaches the controller, but the
\* throttle timer pending at destroy is not cancelled: destroy leaves the
\* timer and its arguments in place, onUpdate is invoked after destroy at
\* most once and then with the last value received before destroy, and a
\* timer pending after destroy does lead to that invocation.
C23_DestroyKeepsTimer ==
    /\ [][destroyed => /\ calls' = calls
                       /\ lastCall' = lastCall
                       /\ ariaValue' = ariaValue]_vars
    /\ [][(~destroyed /\ destroyed') => /\ timeoutId' = timeoutId
                                        /\ lastArgs' = lastArgs]_vars
    /\ [](/\ Cardinality(AfterDestroy) <= 1
          /\ \A i \in AfterDestroy : fnLog[i].args = lastCall)
    /\ (destroyed /\ timeoutId # NULL) ~> (AfterDestroy # {})

\* onUpdate was invoked after destroy(), with the value of the input event
\* that came last before it
C23_Witness ==
    /\ destroyed
    /\ calls > 1
    /\ AfterDestroy = {Len(fnLog)}
    /\ fnLog[Len(fnLog)].args = lastCall
    /\ fnLog[Len(fnLog)].call = calls
    /\ timeoutId = NULL

====
